---------------------------- MODULE Spec2Model ----------------------------
(***************************************************************************)
(* A model of the single-header JSON tokenizer json_parser.h.              *)
(*                                                                         *)
(* The parser state json_parser_t is the record `parser`; the allocator    *)
(* and the memory the parser writes to is the record `heap`.  The leaf     *)
(* handlers (whitespace, token append, literal, number, string, unicode    *)
(* escape) are operators on a "world" [p |-> parser, h |-> heap, rc |->    *)
(* return code]; the recursive handlers (value, object, array) and the     *)
(* public entry points are actions, the C call stack being `stack`.        *)
(*                                                                         *)
(* Input bytes are one-character strings; offsets are 0-based as in C.     *)
(* Every caller in the repository passes a C string and its strlen, so     *)
(* the byte at json[length] is the terminator NUL.                         *)
(***************************************************************************)
EXTENDS Integers, Sequences, FiniteSets, TLC

VARIABLES parser, heap, pc, stack, ret, result, parses, frees

vars == <<parser, heap, pc, stack, ret, result, parses, frees>>

---------------------------------------------------------------------------
(* Program constants.                                                      *)

\* JSON_DEFAULT_MAX_TOKENS: the initial capacity.  The header lets the build
\* define it (#ifndef); the model is built with 2 so that growth happens on
\* small documents.
JSON_DEFAULT_MAX_TOKENS == 2
JSON_DEFAULT_MAX_DEPTH == 32
JSON_DEFAULT_MAX_STRING == 256

\* size_t is unsigned; arithmetic is modulo 2^SizeBits.  16 bits is the
\* narrowest size_t the C standard allows.
SizeBits == 16
SizeMod == 2 ^ SizeBits

SizeSub(a, b) == (a - b + SizeMod) % SizeMod

NUL == "NUL"

---------------------------------------------------------------------------
(* Bounds of the model.                                                    *)

\* Longest input drawn lexeme by lexeme.
MaxLexemes == 4
\* Deepest pure nest of containers drawn.
MaxNest == 4
\* Longest string body (in body items) drawn for the string decoder.
MaxItems == 2
\* Largest max_string drawn for the string decoder.
MaxStringBound == 4
\* Allocation attempts that fault injection can make fail (0: none fails).
MaxFailAt == 3
\* Calls of json_parser_parse per state.
MaxParses == 2
\* Calls of json_parser_free per state.
MaxFrees == 2
\* bytes of a generated number text
MaxNumLen == 4

---------------------------------------------------------------------------
(* <ctype.h> and byte values.                                              *)

Digits == {"0", "1", "2", "3", "4", "5", "6", "7", "8", "9"}

isspace(c) == c \in {" ", "\t", "\n", "\r", "\f", "VT"}

isdigit(c) == c \in Digits

DigitVal(c) ==
    CASE c = "0" -> 0 [] c = "1" -> 1 [] c = "2" -> 2 [] c = "3" -> 3
      [] c = "4" -> 4 [] c = "5" -> 5 [] c = "6" -> 6 [] c = "7" -> 7
      [] c = "8" -> 8 [] c = "9" -> 9

\* The value of a hexadecimal digit, -1 for any other byte.
HexVal(c) ==
    CASE c \in Digits -> DigitVal(c)
      [] c \in {"a", "A"} -> 10 [] c \in {"b", "B"} -> 11
      [] c \in {"c", "C"} -> 12 [] c \in {"d", "D"} -> 13
      [] c \in {"e", "E"} -> 14 [] c \in {"f", "F"} -> 15
      [] OTHER -> -1

\* The byte value of an input character (ASCII).
Ord(c) ==
    CASE c = NUL -> 0
      [] c = "\t" -> 9 [] c = "\n" -> 10 [] c = "VT" -> 11
      [] c = "\f" -> 12 [] c = "\r" -> 13
      [] c = " " -> 32 [] c = "\"" -> 34 [] c = "+" -> 43 [] c = "," -> 44
      [] c = "-" -> 45 [] c = "." -> 46 [] c = "/" -> 47
      [] c \in Digits -> 48 + DigitVal(c)
      [] c = ":" -> 58
      [] c = "A" -> 65 [] c = "B" -> 66 [] c = "C" -> 67 [] c = "D" -> 68
      [] c = "E" -> 69 [] c = "F" -> 70 [] c = "T" -> 84
      [] c = "[" -> 91 [] c = "\\" -> 92 [] c = "]" -> 93
      [] c = "a" -> 97 [] c = "b" -> 98 [] c = "c" -> 99 [] c = "d" -> 100
      [] c = "e" -> 101 [] c = "f" -> 102 [] c = "k" -> 107
      [] c = "l" -> 108 [] c = "n" -> 110 [] c = "o" -> 111
      [] c = "r" -> 114
      [] c = "s" -> 115 [] c = "t" -> 116 [] c = "u" -> 117
      [] c = "x" -> 120 [] c = "{" -> 123 [] c = "}" -> 125

---------------------------------------------------------------------------
(* The allocator.  heap.blocks[b] counts the releases of block b (0: live); *)
(* heap.allocs counts the allocation attempts, of which attempt number      *)
(* heap.failAt fails; heap.gen counts the relocations of the token array.   *)

AllocFails(h) == h.allocs + 1 = h.failAt

\* malloc(size): the block id, 0 for a null pointer.  malloc(0) may return a
\* null pointer or a block of no bytes (zeroNull chooses).
malloc(h, size, zeroNull) ==
    LET h1 == [h EXCEPT !.allocs = @ + 1]
    IN  IF AllocFails(h)
        THEN [h |-> [h1 EXCEPT !.failed = TRUE], ptr |-> 0]
        ELSE IF size = 0 /\ zeroNull
        THEN [h |-> h1, ptr |-> 0]
        ELSE [h |-> [h1 EXCEPT !.blocks = Append(@, 0)],
              ptr |-> Len(h.blocks) + 1]

\* free(ptr): free(NULL) does nothing.
free(h, ptr) ==
    IF ptr = 0 THEN h ELSE [h EXCEPT !.blocks[ptr] = @ + 1]

\* realloc(ptr, size) of the token array: on failure the old block stays; on
\* success the array stays in place or moves to a new block (moved chooses),
\* the old block then being released.
realloc(h, ptr, moved) ==
    LET h1 == [h EXCEPT !.allocs = @ + 1]
    IN  IF AllocFails(h)
        THEN [h |-> [h1 EXCEPT !.failed = TRUE], ptr |-> 0]
        ELSE IF moved \/ ptr = 0
        THEN [h |-> [free(h1, ptr) EXCEPT !.blocks = Append(@, 0),
                                          !.gen = @ + 1],
              ptr |-> Len(h.blocks) + 1]
        ELSE [h |-> h1, ptr |-> ptr]

---------------------------------------------------------------------------
(* Tokens.                                                                 *)

\* json_get_tokens(parser, &count): the array and the number of tokens.
json_get_tokens(p) == [tokens |-> p.tokens, count |-> p.token_count]

\* memset(token, 0, sizeof(*token)): type JSON_TOKEN_INVALID, a null string
\* pointer (the union's number is 0.0), start = end = 0.
ZeroNumber == [neg |-> FALSE, mant |-> 0, exp |-> 0]

ZeroToken ==
    [type |-> "INVALID", string |-> 0, bytes |-> <<>>, number |-> ZeroNumber,
     start |-> 0, end |-> 0]

World(p, h, rc) == [p |-> p, h |-> h, rc |-> rc]

\* parser->json[i]
At(p, i) == IF i < p.length THEN p.json[i + 1] ELSE NUL

json_set_error(p, error) ==
    IF p.error = "NONE" THEN [p EXCEPT !.error = error] ELSE p

RECURSIVE SkipFrom(_, _)
SkipFrom(p, i) ==
    IF i < p.length /\ isspace(At(p, i)) THEN SkipFrom(p, i + 1) ELSE i

json_skip_whitespace(p) == [p EXCEPT !.pos = SkipFrom(p, p.pos)]

\* token->end = end through a pointer into the token array taken when the
\* array was at generation gen: the store reaches the array only if the
\* array has not moved since; otherwise it lands in the released block.
StoreEnd(w, idx, gen, end) ==
    IF gen # w.h.gen
    THEN [w EXCEPT !.h.staleWrite = TRUE]
    ELSE [w EXCEPT !.p.cells[idx].end = end]

\* A json_add_token that assigns realloc's result to parser->tokens before
\* testing it.
json_add_token_LosesArray(w, type, moved) ==
    LET p == w.p
        full == p.token_count >= p.token_cap
        new_cap == (p.token_cap * 2) % SizeMod
        r == realloc(w.h, p.tokens, moved)
    IN  IF full /\ r.ptr = 0
        THEN World(json_set_error([p EXCEPT !.tokens = 0], "ALLOCATION_FAILED"),
                   r.h, -1)
        ELSE LET p1 == IF full
                       THEN [p EXCEPT !.tokens = r.ptr, !.token_cap = new_cap]
                       ELSE p
                 h1 == IF full THEN r.h ELSE w.h
                 p2 == [p1 EXCEPT !.token_count = @ + 1]
                 tok == [ZeroToken EXCEPT !.type = type, !.start = p.pos,
                                          !.end = p.pos]
             IN  IF p2.tokens = 0
                 THEN World(p2, [h1 EXCEPT !.nullWrite = TRUE], 0)
                 ELSE World([p2 EXCEPT !.cells = Append(@, tok)], h1, 0)

\* A json_add_token that puts the new token in front of the stored ones.
json_add_token_Prepend(w, type, moved) ==
    LET p == w.p
        full == p.token_count >= p.token_cap
        new_cap == (p.token_cap * 2) % SizeMod
        r == realloc(w.h, p.tokens, moved)
    IN  IF full /\ r.ptr = 0
        THEN World(json_set_error(p, "ALLOCATION_FAILED"), r.h, -1)
        ELSE LET p1 == IF full
                       THEN [p EXCEPT !.tokens = r.ptr, !.token_cap = new_cap]
                       ELSE p
                 h1 == IF full THEN r.h ELSE w.h
                 p2 == [p1 EXCEPT !.token_count = @ + 1]
                 tok == [ZeroToken EXCEPT !.type = type, !.start = p.pos,
                                          !.end = p.pos]
             IN  IF p2.tokens = 0
                 THEN World(p2, [h1 EXCEPT !.nullWrite = TRUE], 0)
                 ELSE World([p2 EXCEPT !.cells = <<tok>> \o @], h1, 0)

json_add_token(w, type, moved) ==
    LET p == w.p
        full == p.token_count >= p.token_cap
        new_cap == (p.token_cap * 2) % SizeMod
        r == realloc(w.h, p.tokens, moved)
    IN  IF full /\ r.ptr = 0
        THEN World(json_set_error(p, "ALLOCATION_FAILED"), r.h, -1)
        ELSE LET p1 == IF full
                       THEN [p EXCEPT !.tokens = r.ptr, !.token_cap = new_cap]
                       ELSE p
                 h1 == IF full THEN r.h ELSE w.h
                 p2 == [p1 EXCEPT !.token_count = @ + 1]
                 tok == [ZeroToken EXCEPT !.type = type, !.start = p.pos,
                                          !.end = p.pos]
             IN  IF p2.tokens = 0
                 THEN World(p2, [h1 EXCEPT !.nullWrite = TRUE], 0)
                 ELSE World([p2 EXCEPT !.cells = Append(@, tok)], h1, 0)

---------------------------------------------------------------------------
(* The string decoder.                                                     *)

\* buf[idx++] = byte, buf being the scratch buffer of max_string bytes: a
\* store at an index >= max_string is outside the buffer.
Put(d, byte) ==
    [d EXCEPT !.buf = Append(@, byte),
              !.h.overrun = @ \/ Len(d.buf) >= d.p.max_string]

\* Four hex digits read with json[pos++]: the cursor has passed the byte
\* that is not a hex digit when the loop returns -1.
RECURSIVE Hex4(_, _, _, _)
Hex4(p, i, k, acc) ==
    IF k = 4
    THEN [ok |-> TRUE, val |-> acc, pos |-> i]
    ELSE LET v == HexVal(At(p, i))
         IN  IF v < 0
             THEN [ok |-> FALSE, val |-> acc, pos |-> i + 1]
             ELSE Hex4(p, i + 1, k + 1, acc * 16 + v)

\* The UTF-8 encoding of codepoint into the buffer, each size class behind
\* its limit check idx >= max_string - k.
Utf8Encode(d, codepoint) ==
    LET idx == Len(d.buf)
        lim(k) == SizeSub(d.p.max_string, k)
    IN  IF codepoint <= 127
        THEN IF idx >= lim(1) THEN [d EXCEPT !.rc = -1]
             ELSE Put(d, codepoint)
        ELSE IF codepoint <= 2047
        THEN IF idx >= lim(2) THEN [d EXCEPT !.rc = -1]
             ELSE Put(Put(d, 192 + (codepoint \div 64)), 128 + (codepoint % 64))
        ELSE IF codepoint <= 65535
        THEN IF idx >= lim(3) THEN [d EXCEPT !.rc = -1]
             ELSE Put(Put(Put(d, 224 + (codepoint \div 4096)),
                          128 + ((codepoint \div 64) % 64)),
                      128 + (codepoint % 64))
        ELSE IF idx >= lim(4) THEN [d EXCEPT !.rc = -1]
             ELSE Put(Put(Put(Put(d, 240 + (codepoint \div 262144)),
                              128 + ((codepoint \div 4096) % 64)),
                          128 + ((codepoint \div 64) % 64)),
                      128 + (codepoint % 64))

\* A json_parse_unicode_escape that encodes every code unit by itself.
json_parse_unicode_escape_NoSurrogates(d) ==
    LET p == d.p
        hi == Hex4(p, p.pos, 0, 0)
    IN  IF p.pos + 4 > p.length THEN [d EXCEPT !.rc = -1]
        ELSE IF ~hi.ok THEN [d EXCEPT !.p.pos = hi.pos, !.rc = -1]
        ELSE Utf8Encode([d EXCEPT !.p.pos = hi.pos], hi.val)

\* d is a world with the scratch buffer: [p, h, rc, buf].
json_parse_unicode_escape(d) ==
    LET p == d.p
        fail(pos) == [d EXCEPT !.p.pos = pos, !.rc = -1]
    IN  IF p.pos + 4 > p.length THEN fail(p.pos)
        ELSE
        LET hi == Hex4(p, p.pos, 0, 0)
        IN  IF ~hi.ok THEN fail(hi.pos)
            ELSE IF hi.val >= 55296 /\ hi.val <= 56319
            THEN IF \/ hi.pos + 6 > p.length
                    \/ At(p, hi.pos) # "\\"
                    \/ At(p, hi.pos + 1) # "u"
                 THEN fail(hi.pos)
                 ELSE LET lo == Hex4(p, hi.pos + 2, 0, 0)
                      IN  IF ~lo.ok THEN fail(lo.pos)
                          ELSE IF lo.val < 56320 \/ lo.val > 57343
                          THEN fail(lo.pos)
                          ELSE Utf8Encode([d EXCEPT !.p.pos = lo.pos],
                                          65536 + (hi.val - 55296) * 1024
                                                + (lo.val - 56320))
            ELSE IF hi.val >= 56320 /\ hi.val <= 57343
            THEN fail(hi.pos)
            ELSE Utf8Encode([d EXCEPT !.p.pos = hi.pos], hi.val)

\* The byte a simple escape stands for, -1 for 'u' and for any other byte.
EscapeByte(c) ==
    CASE c = "\"" -> 34 [] c = "\\" -> 92 [] c = "/" -> 47
      [] c = "b" -> 8 [] c = "f" -> 12 [] c = "n" -> 10
      [] c = "r" -> 13 [] c = "t" -> 9
      [] OTHER -> -1

\* The loop of json_parse_string; t is the index of the String token and
\* buffer the scratch block.  Every failure releases the scratch block.
RECURSIVE StringLoop(_, _, _)
StringLoop(d, t, buffer) ==
    LET p == d.p
        idx == Len(d.buf)
        bail(pos, error) ==
            World(json_set_error([p EXCEPT !.pos = pos], error),
                  free(d.h, buffer), -1)
        store(pos, byte) ==
            IF idx >= SizeSub(p.max_string, 1)
            THEN bail(pos, "STRING_TOO_LONG")
            ELSE StringLoop(Put([d EXCEPT !.p.pos = pos], byte), t, buffer)
    IN  IF ~(p.pos < p.length) THEN bail(p.pos, "UNEXPECTED_CHAR")
        ELSE
        LET c == At(p, p.pos)
        IN  IF c = "\""
            THEN LET e == Put([d EXCEPT !.p.pos = p.pos + 1], 0)
                 IN  World([e.p EXCEPT !.cells[t].end = p.pos,
                                       !.cells[t].string = buffer,
                                       !.cells[t].bytes = d.buf],
                           e.h, 0)
            ELSE IF c = "\\"
            THEN IF p.pos + 1 >= p.length
                 THEN bail(p.pos + 1, "UNEXPECTED_CHAR")
                 ELSE LET c2 == At(p, p.pos + 1)
                      IN  IF c2 = "u"
                          THEN LET u == json_parse_unicode_escape(
                                            [d EXCEPT !.p.pos = p.pos + 2])
                               IN  IF u.rc # 0
                                   THEN World(json_set_error(u.p, "INVALID_UNICODE"),
                                              free(u.h, buffer), -1)
                                   ELSE StringLoop(u, t, buffer)
                          ELSE IF EscapeByte(c2) < 0
                          THEN bail(p.pos + 2, "INVALID_ESCAPE")
                          ELSE store(p.pos + 2, EscapeByte(c2))
            ELSE store(p.pos + 1, Ord(c))

json_parse_string(w, moved, zeroNull) ==
    LET a == json_add_token(w, "STRING", moved)
    IN  IF a.rc # 0 \/ a.h.nullWrite THEN a
        ELSE
        LET t == a.p.token_count
            p1 == [a.p EXCEPT !.cells[t].start = a.p.pos + 1]
            m == malloc(a.h, p1.max_string, zeroNull)
        IN  IF m.ptr = 0
            THEN World(json_set_error(p1, "ALLOCATION_FAILED"), m.h, -1)
            ELSE StringLoop([p |-> [p1 EXCEPT !.pos = @ + 1], h |-> m.h,
                             rc |-> 0, buf |-> <<>>], t, m.ptr)

---------------------------------------------------------------------------
(* The number validator.                                                   *)

RECURSIVE SkipDigits(_, _)
SkipDigits(p, i) == IF isdigit(At(p, i)) THEN SkipDigits(p, i + 1) ELSE i

RECURSIVE SkipHex(_, _)
SkipHex(p, i) == IF HexVal(At(p, i)) >= 0 THEN SkipHex(p, i + 1) ELSE i

\* The integer the decimal digits of [a, b) spell.
RECURSIVE DigitsValue(_, _, _, _)
DigitsValue(p, a, b, acc) ==
    IF a >= b THEN acc
    ELSE DigitsValue(p, a + 1, b, acc * 10 + DigitVal(At(p, a)))

\* A scan that takes any run of digits as the integer part.
ScanNumber_LeadingZeros(p, s) ==
    LET i1 == IF At(p, s) = "-" THEN s + 1 ELSE s
        i2 == IF isdigit(At(p, i1)) THEN SkipDigits(p, i1 + 1) ELSE -1
        i3 == IF i2 < 0 THEN -1
              ELSE IF At(p, i2) = "."
              THEN IF ~isdigit(At(p, i2 + 1)) THEN -1
                   ELSE SkipDigits(p, i2 + 2)
              ELSE i2
        j  == IF At(p, i3 + 1) \in {"+", "-"} THEN i3 + 2 ELSE i3 + 1
    IN  IF i3 < 0 THEN -1
        ELSE IF At(p, i3) \in {"e", "E"}
        THEN IF ~isdigit(At(p, j)) THEN -1 ELSE SkipDigits(p, j + 1)
        ELSE i3

\* The manual scan of json_parse_number from offset s: the offset p reaches,
\* or -1 where the scan rejects.
ScanNumber(p, s) ==
    LET i1 == IF At(p, s) = "-" THEN s + 1 ELSE s
        i2 == IF At(p, i1) = "0" THEN i1 + 1
              ELSE IF isdigit(At(p, i1)) THEN SkipDigits(p, i1 + 1)
              ELSE -1
        i3 == IF i2 < 0 THEN -1
              ELSE IF At(p, i2) = "."
              THEN IF ~isdigit(At(p, i2 + 1)) THEN -1
                   ELSE SkipDigits(p, i2 + 2)
              ELSE i2
        j  == IF At(p, i3 + 1) \in {"+", "-"} THEN i3 + 2 ELSE i3 + 1
    IN  IF i3 < 0 THEN -1
        ELSE IF At(p, i3) \in {"e", "E"}
        THEN IF ~isdigit(At(p, j)) THEN -1 ELSE SkipDigits(p, j + 1)
        ELSE i3

\* strtod(json + s, &end): the longest prefix that is a decimal or a
\* hexadecimal floating constant with an optional sign; end = s when there
\* is none.  (The forms inf and nan start with a letter and cannot follow a
\* scan that accepted.)  The value is neg * mant * 10^exp.
strtod(p, s) ==
    LET neg == At(p, s) = "-"
        i == IF At(p, s) \in {"+", "-"} THEN s + 1 ELSE s
        ishex == /\ At(p, i) = "0"
                 /\ At(p, i + 1) \in {"x", "X"}
                 /\ \/ HexVal(At(p, i + 2)) >= 0
                    \/ At(p, i + 2) = "." /\ HexVal(At(p, i + 3)) >= 0
        h1 == SkipHex(p, i + 2)
        h2 == IF At(p, h1) = "." THEN SkipHex(p, h1 + 1) ELSE h1
        hj == IF At(p, h2 + 1) \in {"+", "-"} THEN h2 + 2 ELSE h2 + 1
        h3 == IF At(p, h2) \in {"p", "P"} /\ isdigit(At(p, hj))
              THEN SkipDigits(p, hj + 1) ELSE h2
        d1 == SkipDigits(p, i)
        d2 == IF At(p, d1) = "." THEN SkipDigits(p, d1 + 1) ELSE d1
        any == d1 > i \/ d2 > d1 + 1
        ej == IF At(p, d2 + 1) \in {"+", "-"} THEN d2 + 2 ELSE d2 + 1
        hasexp == At(p, d2) \in {"e", "E"} /\ isdigit(At(p, ej))
        d3 == IF hasexp THEN SkipDigits(p, ej + 1) ELSE d2
        frac == IF d2 > d1 THEN d2 - (d1 + 1) ELSE 0
        mant == DigitsValue(p, d1 + 1, d2, DigitsValue(p, i, d1, 0))
        e == IF hasexp THEN DigitsValue(p, ej, d3, 0) ELSE 0
        exp == (IF hasexp /\ At(p, d2 + 1) = "-" THEN 0 - e ELSE e) - frac
    IN  IF ishex
        THEN [end |-> h3, num |-> [neg |-> neg, mant |-> 0, exp |-> 0]]
        ELSE IF ~any
        THEN [end |-> s, num |-> ZeroNumber]
        ELSE [end |-> d3, num |-> [neg |-> neg, mant |-> mant, exp |-> exp]]

\* A json_parse_number that trusts its scan and does not compare the span
\* the conversion consumed.
json_parse_number_Unchecked(w, moved) ==
    LET p == w.p
        q == ScanNumber(p, p.pos)
        conv == strtod(p, p.pos)
    IN  IF q < 0
        THEN World(json_set_error(p, "INVALID_NUMBER"), w.h, -1)
        ELSE LET a == json_add_token(w, "NUMBER", moved)
                 t == a.p.token_count
             IN  IF a.rc # 0 \/ a.h.nullWrite THEN a
                 ELSE World([a.p EXCEPT !.cells[t].number = conv.num,
                                        !.cells[t].start = p.pos,
                                        !.pos = q,
                                        !.cells[t].end = q],
                            a.h, 0)

json_parse_number(w, moved) ==
    LET p == w.p
        q == ScanNumber(p, p.pos)
        conv == strtod(p, p.pos)
    IN  IF q < 0 \/ conv.end # q
        THEN World(json_set_error(p, "INVALID_NUMBER"), w.h, -1)
        ELSE LET a == json_add_token(w, "NUMBER", moved)
                 t == a.p.token_count
             IN  IF a.rc # 0 \/ a.h.nullWrite THEN a
                 ELSE World([a.p EXCEPT !.cells[t].number = conv.num,
                                        !.cells[t].start = p.pos,
                                        !.pos = q,
                                        !.cells[t].end = q],
                            a.h, 0)

---------------------------------------------------------------------------
(* The literals true, false and null.                                      *)

\* strncmp(json + pos, literal, len) == 0, the caller having checked that
\* pos + len <= length.
RECURSIVE SameBytes(_, _, _, _)
SameBytes(p, pos, literal, k) ==
    \/ k > Len(literal)
    \/ /\ At(p, pos + k - 1) = literal[k]
       /\ SameBytes(p, pos, literal, k + 1)

\* A json_parse_literal that consumes the literal and appends no token.
json_parse_literal_NoToken(w, literal, type, moved) ==
    LET p == w.p
        len == Len(literal)
    IN  IF p.pos + len > p.length THEN World(p, w.h, -1)
        ELSE IF ~SameBytes(p, p.pos, literal, 1) THEN World(p, w.h, -1)
        ELSE World([p EXCEPT !.pos = p.pos + len], w.h, 0)

json_parse_literal(w, literal, type, moved) ==
    LET p == w.p
        len == Len(literal)
    IN  IF p.pos + len > p.length THEN World(p, w.h, -1)
        ELSE IF ~SameBytes(p, p.pos, literal, 1) THEN World(p, w.h, -1)
        ELSE LET a == json_add_token([w EXCEPT !.p.pos = p.pos + len],
                                     type, moved)
             IN  IF a.rc # 0 THEN World(a.p, a.h, -1) ELSE World(a.p, a.h, 0)

LitTrue == <<"t", "r", "u", "e">>
LitFalse == <<"f", "a", "l", "s", "e">>
LitNull == <<"n", "u", "l", "l">>

---------------------------------------------------------------------------
(* Construction and teardown.                                              *)

ZeroParser ==
    [json |-> <<>>, length |-> 0, pos |-> 0, tokens |-> 0, cells |-> <<>>,
     token_count |-> 0, token_cap |-> 0, max_depth |-> 0, max_string |-> 0,
     error |-> "NONE", depth |-> 0]

NewHeap(failAt) ==
    [blocks |-> <<>>, allocs |-> 0, failAt |-> failAt, failed |-> FALSE,
     gen |-> 0, nullWrite |-> FALSE, staleWrite |-> FALSE, overrun |-> FALSE]

json_parser_init(json, length, h) ==
    LET m == malloc(h, JSON_DEFAULT_MAX_TOKENS, FALSE)
        p == [ZeroParser EXCEPT !.json = json, !.length = length,
                                !.token_cap = JSON_DEFAULT_MAX_TOKENS,
                                !.max_depth = JSON_DEFAULT_MAX_DEPTH,
                                !.max_string = JSON_DEFAULT_MAX_STRING,
                                !.tokens = m.ptr]
    IN  World(IF m.ptr = 0 THEN [p EXCEPT !.error = "ALLOCATION_FAILED"] ELSE p,
              m.h, 0)

\* The loop of json_parser_free over tokens[i], i < token_count.
RECURSIVE FreeStrings(_, _, _)
FreeStrings(h, cells, i) ==
    IF i > Len(cells) THEN h
    ELSE FreeStrings(IF cells[i].type = "STRING"
                     THEN free(h, cells[i].string) ELSE h,
                     cells, i + 1)

\* A json_parser_free that releases the token array and not the strings.
json_parser_free_Leaky(w) == World(ZeroParser, free(w.h, w.p.tokens), 0)

json_parser_free(w) ==
    World(ZeroParser, free(FreeStrings(w.h, w.p.cells, 1), w.p.tokens), 0)

---------------------------------------------------------------------------
(* The inputs.  A configuration is what the caller fixes before Parse: the *)
(* text, the two limits (fields the caller may overwrite after             *)
(* json_parser_init, as the tests do) and which allocation fails.          *)

Q == "\""

Str(body) == <<Q>> \o body \o <<Q>>

RECURSIVE Join(_, _)
Join(ms, sep) ==
    IF ms = <<>> THEN <<>>
    ELSE IF Len(ms) = 1 THEN ms[1]
    ELSE ms[1] \o sep \o Join(Tail(ms), sep)

Arr(ms) == <<"[">> \o Join(ms, <<",">>) \o <<"]">>

Member(m) == Str(<<"k">>) \o <<":">> \o m

Obj(ms) ==
    <<"{">> \o Join([i \in 1..Len(ms) |-> Member(ms[i])], <<",">>) \o <<"}">>

\* The sequences of at most n elements of S.
SeqsUpTo(S, n) == UNION {[1..k -> S] : k \in 0..n}

\* Texts of at most MaxLexemes lexemes, well-formed or not.
Lexemes ==
    {<<"{">>, <<"}">>, <<"[">>, <<"]">>, <<":">>, <<",">>, <<" ">>,
     <<"1">>, Str(<<"a">>), <<"t">>}

RECURSIVE Flatten(_)
Flatten(ls) == IF ls = <<>> THEN <<>> ELSE ls[1] \o Flatten(Tail(ls))

LexDocs == {Flatten(ls) : ls \in SeqsUpTo(Lexemes, MaxLexemes)}

\* Well-formed documents: scalars, containers of scalars, and containers of
\* those, with at most MaxMembers members each.
MaxMembers == 2

Scalars == {<<"1">>, Str(<<"a">>), LitTrue, LitNull}

Containers(S, n) ==
    {Arr(ms) : ms \in SeqsUpTo(S, n)} \cup {Obj(ms) : ms \in SeqsUpTo(S, n)}

Flat == Containers(Scalars, MaxMembers)

Nested == Containers(Scalars \cup Containers(Scalars, 1), MaxMembers)

Deep == {Arr(<<m>>) : m \in Nested} \cup {Obj(<<m>>) : m \in Nested}

WellFormedDocs == Scalars \cup Flat \cup Nested \cup Deep

\* Pure nests: kinds[1] opens outermost; an object holds the next container
\* as the value of its key "k".
RECURSIVE NestDoc(_)
NestDoc(kinds) ==
    IF kinds = <<>> THEN <<>>
    ELSE IF kinds[1] = "["
    THEN <<"[">> \o NestDoc(Tail(kinds)) \o <<"]">>
    ELSE IF Len(kinds) = 1 THEN <<"{", "}">>
    ELSE <<"{">> \o Member(NestDoc(Tail(kinds))) \o <<"}">>

NestKinds == UNION {[1..k -> {"[", "{"}] : k \in 1..MaxNest}

NestDocs == {NestDoc(kinds) : kinds \in NestKinds}

\* String literals: a body of at most MaxItems items, each a plain byte, a
\* simple escape or a \u escape (1, 2, 3 and 4 bytes of UTF-8; U+0000; a
\* lone high and a lone low surrogate; a digit that is not hexadecimal).
U(a, b, c, d) == <<"\\", "u", a, b, c, d>>

StringItems ==
    {<<"a">>, <<"\\", "n">>, <<"\\", "x">>,
     U("0", "0", "4", "1"), U("0", "0", "e", "9"), U("2", "0", "A", "C"),
     U("D", "8", "0", "0") \o U("D", "C", "0", "0"),
     U("0", "0", "0", "0"), U("D", "8", "0", "0"), U("D", "C", "0", "0"),
     U("0", "0", "x", "1")}

StringDocs == {Str(Flatten(b)) : b \in SeqsUpTo(StringItems, MaxItems)}

\* Number texts, well-formed or not.
NumberBytes == {"-", "+", ".", "e", "E", "x", "0", "1"}

NumberDocs == SeqsUpTo(NumberBytes, MaxNumLen)

\* The documents of the repository's tests and demos that fit the model's
\* alphabet, and malformed neighbours of them.
Corpus ==
    {<<"{", "}">>, <<"[", "]">>,
     <<"[">> \o LitTrue \o <<",", " ">> \o LitFalse \o <<",", " ">>
             \o LitNull \o <<"]">>,
     <<"{">> \o Str(<<"a">>) \o <<":", " ", "[", "1", ",", " ", "{">>
             \o Str(<<"b">>) \o <<":", " ">> \o LitTrue \o <<"}", "]", "}">>,
     <<"{">> \o Str(<<"a">>) \o <<":", "1", ",", "}">>,
     <<"{">> \o Str(<<"a">>) \o <<":", "1", ",">> \o Str(<<"b">>)
             \o <<":", "[", "1", ",", "2", ",", "3", "]", "}">>,
     <<"[", "1", ",", "]">>,
     <<"[", "1", ",", "2", ",", "3", ",", "4", ",", "5", "]">>,
     <<"[">> \o Str(<<"a">>) \o <<",">> \o Str(<<"b">>) \o <<",">>
             \o Str(<<"c">>) \o <<",">> \o Str(<<"d">>),
     <<"[">> \o Str(<<"a">>) \o <<",", Q, "b", "]">>,
     <<"[", "{">> \o Str(<<"a">>) \o <<":", Q, "b", "\\", "x", Q, "}", "]">>,
     <<"{", "1", "2", "3", ":", " ">> \o Str(<<"a">>) \o <<"}">>,
     <<"{", "]">>, <<"{">> \o Str(<<"a">>) \o <<":">>,
     <<"{">> \o Str(<<"a">>), <<"T", "r", "u", "e">>,
     <<"t", "r", "u">>, <<"n", "u", "l">>, LitFalse, <<"f", "a", "l", "s">>,
     <<"/", "/", "\n", "{", "}">>,
     <<"1", "2", "3", "a", "b", "c">>, <<"1", "2", ".", "3", "4", ".", "5">>,
     <<"0", "1", "2", "3">>, <<"0", "x", "1", "F">>, <<".", "1", "2", "3">>,
     <<"1", "2", "3", "e">>, <<"1", "2", "3", "e", "4", "5">>,
     <<"-", "1", "2", "3">>, <<"1", "E", "+", "3">>, <<"1", "E", "-", "3">>,
     <<"0", ".", "1", "2", "3">>, <<" ", "\t", "\n", "1", "\r", " ">>,
     Str(<<"\\", "\"", "\\", "\\", "\\", "/", "\\", "b", "\\", "f", "\\", "n",
           "\\", "r", "\\", "t">>),
     <<Q, "u", "n", "c", "l", "o", "s", "e", "d">>}

Config(json, max_depth, max_string, failAt) ==
    [json |-> json, max_depth |-> max_depth, max_string |-> max_string,
     failAt |-> failAt]

Configs ==
    {Config(j, 2, JSON_DEFAULT_MAX_STRING, 0) : j \in LexDocs}
    \cup {Config(j, JSON_DEFAULT_MAX_DEPTH, JSON_DEFAULT_MAX_STRING, 0) :
            j \in NumberDocs}
    \cup {Config(j, JSON_DEFAULT_MAX_DEPTH, JSON_DEFAULT_MAX_STRING, 0) :
            j \in WellFormedDocs \cup Corpus}
    \cup {Config(j, d, JSON_DEFAULT_MAX_STRING, 0) :
            j \in NestDocs, d \in 0..MaxNest}
    \cup {Config(j, JSON_DEFAULT_MAX_DEPTH, m, 0) :
            j \in StringDocs, m \in (0..MaxStringBound) \cup {JSON_DEFAULT_MAX_STRING}}
    \cup {Config(j, JSON_DEFAULT_MAX_DEPTH, JSON_DEFAULT_MAX_STRING, f) :
            j \in Corpus \cup Flat, f \in 1..MaxFailAt}

---------------------------------------------------------------------------
(* The state machine.  pc is the place of the one thread of control:       *)
(* "ready" (constructed), "value" (json_parse_value entered), "obj_enter", *)
(* "obj_loop", "obj_after", "arr_enter", "arr_loop", "arr_after" (inside   *)
(* json_parse_object / json_parse_array, the *_after places being the      *)
(* return of the nested json_parse_value), "parse_end" (json_parse_value   *)
(* has returned to json_parser_parse), "returned", "freed", and "crashed"  *)
(* (a store through a null pointer).  stack holds the frames of the        *)
(* containers being parsed, innermost first: the handler and its local     *)
(* pointer into the token array (index and generation of the array).       *)

Init ==
    \E cfg \in Configs :
        LET w == json_parser_init(cfg.json, Len(cfg.json), NewHeap(cfg.failAt))
        IN  /\ parser = [w.p EXCEPT !.max_depth = cfg.max_depth,
                                    !.max_string = cfg.max_string]
            /\ heap = w.h
            /\ pc = "ready"
            /\ stack = <<>>
            /\ ret = 0
            /\ result = "UNSET"
            /\ parses = 0
            /\ frees = 0

\* Where control resumes when a value handler returns.
Resume(stk) ==
    IF stk = <<>> THEN "parse_end"
    ELSE IF Head(stk).fn = "object" THEN "obj_after" ELSE "arr_after"

\* A value handler returns r to its caller, the frames stk remaining.
Return(w, r, stk) ==
    /\ parser' = w.p
    /\ heap' = w.h
    /\ ret' = r
    /\ stack' = stk
    /\ pc' = IF w.h.nullWrite THEN "crashed" ELSE Resume(stk)
    /\ UNCHANGED <<result, parses, frees>>

\* Control moves to place within the handlers.
Goto(w, place, stk) ==
    /\ parser' = w.p
    /\ heap' = w.h
    /\ stack' = stk
    /\ pc' = IF w.h.nullWrite THEN "crashed" ELSE place
    /\ UNCHANGED <<ret, result, parses, frees>>

Fail(w, error) == World(json_set_error(w.p, error), w.h, -1)

\* A json_parser_parse that starts over: it rewinds the cursor before it
\* looks for a value.
ParseBegin_Rewinds ==
    /\ pc \in {"ready", "returned"}
    /\ parses < MaxParses
    /\ parses' = parses + 1
    /\ LET p1 == json_skip_whitespace([parser EXCEPT !.error = "NONE",
                                                     !.pos = 0])
       IN  IF p1.pos >= p1.length
           THEN /\ parser' = json_set_error(p1, "INVALID_TOKEN")
                /\ result' = parser'.error
                /\ pc' = "returned"
                /\ UNCHANGED <<heap, stack, ret, frees>>
           ELSE /\ parser' = p1
                /\ pc' = "value"
                /\ UNCHANGED <<heap, stack, ret, result, frees>>

\* json_parser_parse up to its call of json_parse_value.
ParseBegin ==
    /\ pc \in {"ready", "returned"}
    /\ parses < MaxParses
    /\ parses' = parses + 1
    /\ LET p1 == json_skip_whitespace([parser EXCEPT !.error = "NONE"])
       IN  IF p1.pos >= p1.length
           THEN /\ parser' = json_set_error(p1, "INVALID_TOKEN")
                /\ result' = parser'.error
                /\ pc' = "returned"
                /\ UNCHANGED <<heap, stack, ret, frees>>
           ELSE /\ parser' = p1
                /\ pc' = "value"
                /\ UNCHANGED <<heap, stack, ret, result, frees>>

\* json_parse_value: the dispatch on the lookahead byte.  The leaf handlers
\* run to their return; the container handlers are entered.
Value ==
    /\ pc = "value"
    /\ \E moved \in BOOLEAN, zeroNull \in BOOLEAN :
        LET p1 == json_skip_whitespace(parser)
            w == World(p1, heap, 0)
            c == At(p1, p1.pos)
            leaf == CASE c = Q -> json_parse_string(w, moved, zeroNull)
                      [] c = "t" -> json_parse_literal(w, LitTrue, "TRUE", moved)
                      [] c = "f" -> json_parse_literal(w, LitFalse, "FALSE", moved)
                      [] c = "n" -> json_parse_literal(w, LitNull, "NULL", moved)
                      [] c = "-" \/ isdigit(c) \/ c = "." ->
                            json_parse_number(w, moved)
                      [] OTHER -> Fail(w, "INVALID_TOKEN")
        IN  IF p1.pos >= p1.length THEN Return(w, -1, stack)
            ELSE IF c = "{" THEN Goto(w, "obj_enter", stack)
            ELSE IF c = "[" THEN Goto(w, "arr_enter", stack)
            ELSE Return(leaf, leaf.rc, stack)

\* The depth check at the entry of a container handler; depth is an int
\* that is never negative, max_depth a size_t.
DepthExceeded_OffByOne(p) == p.depth > p.max_depth

DepthExceeded(p) == p.depth >= p.max_depth

\* The entry of json_parse_object / json_parse_array up to the loop: the
\* depth check, the container token, the opening delimiter and the
\* empty-container shortcut.
Enter(fn, closer, loop) ==
    \E moved \in BOOLEAN :
        LET w == World(parser, heap, 0)
            start_pos == parser.pos
            a == json_add_token([w EXCEPT !.p.depth = @ + 1],
                                IF fn = "object" THEN "OBJECT" ELSE "ARRAY",
                                moved)
            t == a.p.token_count
            p1 == json_skip_whitespace(
                      [a.p EXCEPT !.cells[t].start = start_pos,
                                  !.cells[t].end = 0,
                                  !.pos = @ + 1])
            frame == [fn |-> fn, tok |-> t, gen |-> a.h.gen]
        IN  IF DepthExceeded(parser)
            THEN Return(Fail(w, "NESTING_DEPTH"), -1, stack)
            ELSE IF a.rc < 0 THEN Return(a, -1, stack)
            ELSE IF a.h.nullWrite THEN Goto(a, "crashed", stack)
            ELSE IF At(p1, p1.pos) = closer
            THEN Return(World([p1 EXCEPT !.pos = @ + 1,
                                         !.cells[t].end = p1.pos + 1,
                                         !.depth = @ - 1],
                              a.h, 0), 0, stack)
            ELSE Goto(World(p1, a.h, 0), loop, <<frame>> \o stack)

ObjectEnter == pc = "obj_enter" /\ Enter("object", "}", "obj_loop")

ArrayEnter == pc = "arr_enter" /\ Enter("array", "]", "arr_loop")

\* The closing delimiter at the head of the loop: the container's end is
\* stored through the handler's pointer, depth is decremented.
Close(w, frame) ==
    LET e == StoreEnd([w EXCEPT !.p.pos = @ + 1], frame.tok, frame.gen,
                      w.p.pos + 1)
    IN  [e EXCEPT !.p.depth = @ - 1]

\* The loop of json_parse_object from its head to the call of
\* json_parse_value for the member's value.
ObjectLoop ==
    /\ pc = "obj_loop"
    /\ \E moved \in BOOLEAN, zeroNull \in BOOLEAN :
        LET frame == Head(stack)
            rest == Tail(stack)
            p1 == json_skip_whitespace(parser)
            w == World(p1, heap, 0)
            s == json_parse_string(w, moved, zeroNull)
            p2 == json_skip_whitespace(s.p)
            colon == World([p2 EXCEPT !.pos = @ + 1], s.h, 0)
        IN  IF ~(parser.pos < parser.length) \/ p1.pos >= p1.length
            THEN Return(Fail(w, "UNEXPECTED_CHAR"), -1, rest)
            ELSE IF At(p1, p1.pos) = "}"
            THEN Return(Close(w, frame), 0, rest)
            ELSE IF At(p1, p1.pos) # Q
            THEN Return(Fail(w, "UNEXPECTED_CHAR"), -1, rest)
            ELSE IF s.rc # 0 THEN Return(s, -1, rest)
            ELSE IF s.h.nullWrite THEN Goto(s, "crashed", stack)
            ELSE IF At(p2, p2.pos) # ":"
            THEN Return(Fail(colon, "UNEXPECTED_CHAR"), -1, rest)
            ELSE Goto(colon, "value", stack)

\* A json_parse_object that, when the member's value has failed, stores
\* its own error code in parser->error without json_set_error.
ObjectAfter_Overwrites ==
    /\ pc = "obj_after"
    /\ LET rest == Tail(stack)
           p1 == json_skip_whitespace(parser)
           w == World(p1, heap, 0)
           next == World([p1 EXCEPT !.pos = @ + 1], heap, 0)
       IN  IF ret # 0
           THEN Return(World([parser EXCEPT !.error = "UNEXPECTED_CHAR"],
                             heap, -1), -1, rest)
           ELSE IF At(p1, p1.pos) = "}" THEN Goto(w, "obj_loop", stack)
           ELSE IF At(p1, p1.pos) # ","
           THEN Return(Fail(next, "UNEXPECTED_CHAR"), -1, rest)
           ELSE Goto(next, "obj_loop", stack)

\* json_parse_object after json_parse_value has returned.
ObjectAfter ==
    /\ pc = "obj_after"
    /\ LET rest == Tail(stack)
           p1 == json_skip_whitespace(parser)
           w == World(p1, heap, 0)
           next == World([p1 EXCEPT !.pos = @ + 1], heap, 0)
       IN  IF ret # 0 THEN Return(World(parser, heap, -1), -1, rest)
           ELSE IF At(p1, p1.pos) = "}" THEN Goto(w, "obj_loop", stack)
           ELSE IF At(p1, p1.pos) # ","
           THEN Return(Fail(next, "UNEXPECTED_CHAR"), -1, rest)
           ELSE Goto(next, "obj_loop", stack)

\* The loop of json_parse_array from its head to the call of
\* json_parse_value for the element.
ArrayLoop ==
    /\ pc = "arr_loop"
    /\ LET frame == Head(stack)
           rest == Tail(stack)
           p1 == json_skip_whitespace(parser)
           w == World(p1, heap, 0)
       IN  IF ~(parser.pos < parser.length) \/ p1.pos >= p1.length
           THEN Return(Fail(w, "UNEXPECTED_CHAR"), -1, rest)
           ELSE IF At(p1, p1.pos) = "]"
           THEN Return(Close(w, frame), 0, rest)
           ELSE Goto(w, "value", stack)

\* json_parse_array after json_parse_value has returned.
ArrayAfter ==
    /\ pc = "arr_after"
    /\ LET rest == Tail(stack)
           p1 == json_skip_whitespace(parser)
           w == World(p1, heap, 0)
           p2 == json_skip_whitespace([p1 EXCEPT !.pos = @ + 1])
           comma == World(p2, heap, 0)
       IN  IF ret # 0 THEN Return(World(parser, heap, -1), -1, rest)
           ELSE IF At(p1, p1.pos) = "]" THEN Goto(w, "arr_loop", stack)
           ELSE IF At(p1, p1.pos) = ","
           THEN IF At(p2, p2.pos) = "]"
                THEN Return(Fail(comma, "UNEXPECTED_CHAR"), -1, rest)
                ELSE Goto(comma, "arr_loop", stack)
           ELSE Return(Fail(w, "UNEXPECTED_CHAR"), -1, rest)

\* json_parser_parse after json_parse_value has returned.
ParseEnd ==
    /\ pc = "parse_end"
    /\ LET p1 == json_skip_whitespace(parser)
       IN  /\ parser' = IF ret < 0 THEN parser
                        ELSE IF p1.pos # p1.length
                        THEN json_set_error(p1, "TRAILING_CHARS")
                        ELSE p1
           /\ result' = parser'.error
           /\ pc' = "returned"
           /\ UNCHANGED <<heap, stack, ret, parses, frees>>

\* json_parser_free, on a constructed state, after Parse, or once more on
\* the zeroed state (the test fixture's TearDown after an explicit free).
Free ==
    /\ pc \in {"ready", "returned", "freed"}
    /\ frees < MaxFrees
    /\ LET w == json_parser_free(World(parser, heap, 0))
       IN  /\ parser' = w.p
           /\ heap' = w.h
    /\ pc' = "freed"
    /\ frees' = frees + 1
    /\ UNCHANGED <<stack, ret, result, parses>>

Next ==
    \/ ParseBegin
    \/ Value
    \/ ObjectEnter
    \/ ObjectLoop
    \/ ObjectAfter
    \/ ArrayEnter
    \/ ArrayLoop
    \/ ArrayAfter
    \/ ParseEnd
    \/ Free

Spec == Init /\ [][Next]_vars

---------------------------------------------------------------------------
(* The JSON grammar (RFC 8259), as a reference the parser is compared with. *)
(* RefValue(j, i) reads one value of the text j at offset i and yields      *)
(* whether one is there, the offset after it, its nodes in document         *)
(* pre-order (kind, the extent [start, end) in the text, the decoded length *)
(* of a string) and its nesting depth.  A \u escape must denote a code      *)
(* point: a surrogate is well-formed only as a high-low pair.               *)

Ch(j, i) == IF i >= 0 /\ i < Len(j) THEN j[i + 1] ELSE "EOF"

RefBad == [ok |-> FALSE, pos |-> 0, toks |-> <<>>, depth |-> 0]

RefNode(kind, start, end, len) ==
    [kind |-> kind, start |-> start, end |-> end, len |-> len]

RECURSIVE RefWs(_, _)
RefWs(j, i) ==
    IF Ch(j, i) \in {" ", "\t", "\n", "\r"} THEN RefWs(j, i + 1) ELSE i

RECURSIVE RefDigits(_, _)
RefDigits(j, i) == IF Ch(j, i) \in Digits THEN RefDigits(j, i + 1) ELSE i

\* number = [ "-" ] int [ frac ] [ exp ]: the offset after it, -1 if none.
RefNumberEnd(j, i) ==
    LET a == IF Ch(j, i) = "-" THEN i + 1 ELSE i
        b == IF Ch(j, a) = "0" THEN a + 1
             ELSE IF Ch(j, a) \in Digits THEN RefDigits(j, a) ELSE -1
        c == IF b >= 0 /\ Ch(j, b) = "."
             THEN IF Ch(j, b + 1) \in Digits THEN RefDigits(j, b + 1) ELSE -1
             ELSE b
        s == IF Ch(j, c + 1) \in {"+", "-"} THEN c + 2 ELSE c + 1
    IN  IF c >= 0 /\ Ch(j, c) \in {"e", "E"}
        THEN IF Ch(j, s) \in Digits THEN RefDigits(j, s) ELSE -1
        ELSE c

IsHex(c) == c \in Digits \cup {"a", "b", "c", "d", "e", "f",
                               "A", "B", "C", "D", "E", "F"}

\* The code unit of the four hex digits at offset i, -1 if they are not.
RefUnit(j, i) ==
    IF \A k \in 0..3 : IsHex(Ch(j, i + k))
    THEN HexVal(Ch(j, i)) * 4096 + HexVal(Ch(j, i + 1)) * 256
         + HexVal(Ch(j, i + 2)) * 16 + HexVal(Ch(j, i + 3))
    ELSE -1

\* The body of a string from offset i, n bytes decoded so far.
RECURSIVE RefStringBody(_, _, _)
RefStringBody(j, i, n) ==
    LET c == Ch(j, i)
        e == Ch(j, i + 1)
        u == RefUnit(j, i + 2)
        lo == IF Ch(j, i + 6) = "\\" /\ Ch(j, i + 7) = "u"
              THEN RefUnit(j, i + 8) ELSE -1
    IN  IF c = Q THEN [ok |-> TRUE, pos |-> i + 1, len |-> n]
        ELSE IF c \in {"EOF", NUL, "\t", "\n", "\r", "\f", "VT"}
        THEN [ok |-> FALSE, pos |-> i, len |-> n]
        ELSE IF c # "\\" THEN RefStringBody(j, i + 1, n + 1)
        ELSE IF e \in {Q, "\\", "/", "b", "f", "n", "r", "t"}
        THEN RefStringBody(j, i + 2, n + 1)
        ELSE IF e # "u" \/ u < 0 THEN [ok |-> FALSE, pos |-> i, len |-> n]
        ELSE IF u >= 55296 /\ u <= 56319
        THEN IF lo >= 56320 /\ lo <= 57343
             THEN RefStringBody(j, i + 12, n + 4)
             ELSE [ok |-> FALSE, pos |-> i, len |-> n]
        ELSE IF u >= 56320 /\ u <= 57343
        THEN [ok |-> FALSE, pos |-> i, len |-> n]
        ELSE RefStringBody(j, i + 6,
                           n + (IF u < 128 THEN 1 ELSE IF u < 2048 THEN 2 ELSE 3))

RefString(j, i) ==
    LET b == RefStringBody(j, i + 1, 0)
    IN  IF Ch(j, i) = Q /\ b.ok
        THEN [ok |-> TRUE, pos |-> b.pos,
              toks |-> <<RefNode("STRING", i, b.pos, b.len)>>, depth |-> 0]
        ELSE RefBad

RefLiteral(j, i, literal, kind) ==
    IF \A k \in 1..Len(literal) : Ch(j, i + k - 1) = literal[k]
    THEN [ok |-> TRUE, pos |-> i + Len(literal),
          toks |-> <<RefNode(kind, i, i + Len(literal), 0)>>, depth |-> 0]
    ELSE RefBad

Max(a, b) == IF a >= b THEN a ELSE b

RECURSIVE RefValue(_, _)
RECURSIVE RefElements(_, _)
RECURSIVE RefMembers(_, _)

\* value *( ws "," ws value ) ws "]", from the first value at offset i.
RefElements(j, i) ==
    LET v == RefValue(j, i)
        k == RefWs(j, v.pos)
        more == RefElements(j, RefWs(j, k + 1))
    IN  IF ~v.ok THEN RefBad
        ELSE IF Ch(j, k) = "]" THEN [v EXCEPT !.pos = k + 1]
        ELSE IF Ch(j, k) = "," /\ more.ok
        THEN [ok |-> TRUE, pos |-> more.pos, toks |-> v.toks \o more.toks,
              depth |-> Max(v.depth, more.depth)]
        ELSE RefBad

\* member *( ws "," ws member ) ws "}", from the first key at offset i.
RefMembers(j, i) ==
    LET key == RefString(j, i)
        c == RefWs(j, key.pos)
        v == RefValue(j, RefWs(j, c + 1))
        k == RefWs(j, v.pos)
        more == RefMembers(j, RefWs(j, k + 1))
    IN  IF ~key.ok \/ Ch(j, c) # ":" \/ ~v.ok THEN RefBad
        ELSE IF Ch(j, k) = "}"
        THEN [v EXCEPT !.pos = k + 1, !.toks = key.toks \o v.toks]
        ELSE IF Ch(j, k) = "," /\ more.ok
        THEN [ok |-> TRUE, pos |-> more.pos,
              toks |-> key.toks \o v.toks \o more.toks,
              depth |-> Max(v.depth, more.depth)]
        ELSE RefBad

RefValue(j, i) ==
    LET c == Ch(j, i)
        k == RefWs(j, i + 1)
        closer == IF c = "{" THEN "}" ELSE "]"
        kind == IF c = "{" THEN "OBJECT" ELSE "ARRAY"
        body == IF c = "{" THEN RefMembers(j, k) ELSE RefElements(j, k)
        n == RefNumberEnd(j, i)
    IN  IF c \in {"{", "["}
        THEN IF Ch(j, k) = closer
             THEN [ok |-> TRUE, pos |-> k + 1,
                   toks |-> <<RefNode(kind, i, k + 1, 0)>>, depth |-> 1]
             ELSE IF body.ok
             THEN [ok |-> TRUE, pos |-> body.pos,
                   toks |-> <<RefNode(kind, i, body.pos, 0)>> \o body.toks,
                   depth |-> body.depth + 1]
             ELSE RefBad
        ELSE IF c = Q THEN RefString(j, i)
        ELSE IF c = "t" THEN RefLiteral(j, i, LitTrue, "TRUE")
        ELSE IF c = "f" THEN RefLiteral(j, i, LitFalse, "FALSE")
        ELSE IF c = "n" THEN RefLiteral(j, i, LitNull, "NULL")
        ELSE IF n >= 0
        THEN [ok |-> TRUE, pos |-> n, toks |-> <<RefNode("NUMBER", i, n, 0)>>,
              depth |-> 0]
        ELSE RefBad

\* JSON-text = ws value ws
RefDoc(j) ==
    LET v == RefValue(j, RefWs(j, 0))
    IN  IF v.ok /\ RefWs(j, v.pos) = Len(j) THEN v ELSE RefBad

---------------------------------------------------------------------------
(* Properties.                                                             *)

\* json_parser_parse has returned from its first call on this state.
Returned == pc = "returned" /\ parses = 1

\* Control is inside json_parser_parse.
InParse ==
    pc \in {"value", "obj_enter", "obj_loop", "obj_after", "arr_enter",
            "arr_loop", "arr_after", "parse_end"}

Ref == RefDoc(parser.json)

Tokens == 1..Len(parser.cells)

IsContainer(tok) == tok.type \in {"OBJECT", "ARRAY"}

\* Every string of the document fits the scratch buffer with its terminator.
StringsFit(toks) ==
    \A i \in 1..Len(toks) :
        toks[i].kind = "STRING" => toks[i].len + 1 <= parser.max_string

WithinLimits ==
    /\ Ref.ok
    /\ Ref.depth <= parser.max_depth
    /\ StringsFit(Ref.toks)

\* C1: Parse returns None only on success: when json_parse_value (or a
\* handler under it) has reported failure the latch is not None at the
\* return, and None is returned only for a text that is one well-formed
\* JSON value.
C1_NoneOnlyOnSuccess ==
    Returned =>
        /\ ret # 0 => result # "NONE"
        /\ result = "NONE" => Ref.ok

\* C2: for every well-formed text within the depth and string-length
\* limits (no allocation failing), Parse returns None and token_count is
\* the number of value nodes: one per container, per key and per scalar.
C2_WellFormedTokenCount ==
    Returned /\ WithinLimits /\ ~heap.failed =>
        /\ result = "NONE"
        /\ parser.token_count = Len(Ref.toks)
        /\ Len(parser.cells) = Len(Ref.toks)
        /\ \A i \in Tokens : parser.cells[i].type = Ref.toks[i].kind

C2_Witness ==
    /\ Returned
    /\ WithinLimits
    /\ result = "NONE"
    /\ parser.token_count = 7
    /\ parser.token_cap = 8
    /\ parser.json[2] = Q
    /\ \E i \in Tokens : parser.cells[i].type = "TRUE"

\* C3: after a successful Parse every Object and Array token starts at its
\* opening delimiter and ends just past its matching closing delimiter,
\* also when the token array grew while the container's body was parsed.
C3_ContainerSpans ==
    Returned /\ result = "NONE" /\ Ref.ok /\ Len(parser.cells) = Len(Ref.toks) =>
        \A i \in Tokens :
            IsContainer(parser.cells[i]) =>
                /\ parser.cells[i].start = Ref.toks[i].start
                /\ parser.cells[i].end = Ref.toks[i].end

\* The text j without its byte at offset i.
Without(j, i) == SubSeq(j, 1, i) \o SubSeq(j, i + 2, Len(j))

\* j is a well-formed text of depth at most maxd with one comma put in after
\* the last member of a container, before the (whitespace and) closing
\* delimiter.
TrailingComma(j, maxd) ==
    \E i \in 0..(Len(j) - 1) :
        /\ j[i + 1] = ","
        /\ LET r == RefDoc(Without(j, i))
           IN  /\ r.ok
               /\ r.depth <= maxd
               /\ StringsFit(r.toks)
               /\ \E t \in 1..Len(r.toks) :
                    /\ r.toks[t].kind \in {"OBJECT", "ARRAY"}
                    /\ RefWs(Without(j, i), i) = r.toks[t].end - 1
                    /\ \E m \in (r.toks[t].start + 1)..(i - 1) :
                           ~(Ch(j, m) \in {" ", "\t", "\n", "\r"})

\* C4: a comma followed by the container's closing delimiter is rejected
\* with UnexpectedChar, in objects and in arrays.
C4_TrailingCommaRejected ==
    Returned /\ ~heap.failed /\ TrailingComma(parser.json, parser.max_depth) =>
        result = "UNEXPECTED_CHAR"

\* C5: an allocation failure (in Init, in append, for a scratch buffer) is
\* what Parse returns, and no token is written to storage that was not
\* allocated.
C5_AllocationFailureReported ==
    /\ ~heap.nullWrite
    /\ Returned /\ heap.failed => result = "ALLOCATION_FAILED"

\* C6: first error wins: inside one Parse a latched error is never changed,
\* and Parse returns the latched error.
C6_FirstErrorWins ==
    [][/\ InParse /\ parser.error # "NONE" => parser'.error = parser.error
       /\ InParse /\ pc' = "returned" => result' = parser'.error]_vars

C6_Witness ==
    /\ pc = "obj_after"
    /\ Len(stack) >= 2
    /\ ret # 0
    /\ parser.error = "INVALID_ESCAPE"

\* C7: after Parse has returned, with or without an error, every String
\* token among the first token_count carries a non-null payload (here
\* already with no allocation failing and a scratch buffer of some bytes).
C7_PartialTokensReadable ==
    Returned /\ ~heap.failed /\ parser.max_string >= 1 =>
        \A i \in Tokens :
            parser.cells[i].type = "STRING" => parser.cells[i].string # 0

\* C8: no block is ever released twice; after Free every block allocated
\* for the state has been released and the state is zeroed; a further Free
\* changes nothing.
C8_FreeReleasesOnce ==
    /\ [](\A b \in 1..Len(heap.blocks) : heap.blocks[b] <= 1)
    /\ [](pc = "freed" =>
            /\ \A b \in 1..Len(heap.blocks) : heap.blocks[b] = 1
            /\ parser = ZeroParser)
    /\ [][pc = "freed" => heap' = heap /\ parser' = parser]_vars

C8_Witness ==
    /\ pc = "freed"
    /\ frees = 2
    /\ parses = 1
    /\ result = "UNEXPECTED_CHAR"
    /\ Len(heap.blocks) >= 5
    /\ heap.gen >= 1

\* The container tokens in the store.
ContainerCount == Cardinality({i \in Tokens : IsContainer(parser.cells[i])})

\* C9: a pure nest of d containers parses when d <= max_depth; a nest of
\* max_depth + 1 containers fails with NestingDepth, the refused container
\* having no token: exactly max_depth container tokens are in the store.
C9_NestingBoundary ==
    Returned /\ ~heap.failed /\ parser.json \in NestDocs =>
        /\ Ref.depth <= parser.max_depth => result = "NONE"
        /\ Ref.depth = parser.max_depth + 1 =>
              /\ result = "NESTING_DEPTH"
              /\ ContainerCount = parser.max_depth

C9_Witness ==
    /\ Returned
    /\ parser.json = NestDoc(<<"[", "{", "[", "{">>)
    /\ parser.max_depth = 3
    /\ result = "NESTING_DEPTH"
    /\ ContainerCount = 3

\* C10: a string literal of max_string - 1 decoded bytes parses; one of
\* max_string bytes or more fails with StringTooLong, whatever the bytes
\* come from (here already for max_string >= 1).
C10_StringLengthBoundary ==
    /\ Returned /\ ~heap.failed /\ parser.max_string >= 1
    /\ Ref.ok /\ Len(Ref.toks) = 1 /\ Ref.toks[1].kind = "STRING"
    => /\ Ref.toks[1].len = parser.max_string - 1 => result = "NONE"
       /\ Ref.toks[1].len >= parser.max_string => result = "STRING_TOO_LONG"

---------------------------------------------------------------------------
(* \u escapes.                                                             *)

\* String literals made of \u escapes only.
UnicodeItems == {it \in StringItems : Len(it) >= 6}

UnicodeDocs == {Str(Flatten(b)) : b \in SeqsUpTo(UnicodeItems, MaxItems)}

\* The code units a document of UnicodeDocs spells, -1 for digits that are
\* not hexadecimal.
CodeUnits(j) == [k \in 1..((Len(j) - 2) \div 6) |-> RefUnit(j, 6 * k - 3)]

\* UTF-8 of a code point (RFC 3629).
RefUtf8(cp) ==
    IF cp < 128 THEN <<cp>>
    ELSE IF cp < 2048 THEN <<192 + (cp \div 64), 128 + (cp % 64)>>
    ELSE IF cp < 65536
    THEN <<224 + (cp \div 4096), 128 + ((cp \div 64) % 64), 128 + (cp % 64)>>
    ELSE <<240 + (cp \div 262144), 128 + ((cp \div 4096) % 64),
           128 + ((cp \div 64) % 64), 128 + (cp % 64)>>

IsHigh(u) == u >= 55296 /\ u <= 56319

IsLow(u) == u >= 56320 /\ u <= 57343

\* What a sequence of code units decodes to: ok = FALSE where a digit is
\* not hexadecimal or a surrogate is not half of a high-low pair.
RECURSIVE RefDecode(_)
RefDecode(us) ==
    IF us = <<>> THEN [ok |-> TRUE, bytes |-> <<>>]
    ELSE IF us[1] < 0 \/ IsLow(us[1]) THEN [ok |-> FALSE, bytes |-> <<>>]
    ELSE IF IsHigh(us[1])
    THEN IF Len(us) >= 2 /\ IsLow(us[2])
         THEN LET r == RefDecode(Tail(Tail(us)))
                  cp == 65536 + (us[1] - 55296) * 1024 + (us[2] - 56320)
              IN  [r EXCEPT !.bytes = RefUtf8(cp) \o @]
         ELSE [ok |-> FALSE, bytes |-> <<>>]
    ELSE LET r == RefDecode(Tail(us))
         IN  [r EXCEPT !.bytes = RefUtf8(us[1]) \o @]

---------------------------------------------------------------------------
(* Numbers.                                                                *)

\* The whole text is  -? (0 | [1-9][0-9]*) (. [0-9]+)? ([eE] [+-]? [0-9]+)?
IsJsonNumber(j) == j # <<>> /\ RefNumberEnd(j, 0) = Len(j)

\* C12: over the bytes - + . e E x and digits, Parse returns None with
\* exactly one Number token if and only if the whole input is a JSON number.
C12_NumberGrammar ==
    Returned /\ ~heap.failed /\ parser.json \in NumberDocs =>
        (/\ result = "NONE"
         /\ parser.token_count = 1
         /\ parser.cells[1].type = "NUMBER")
        <=> IsJsonNumber(parser.json)

C12_Witness ==
    /\ Returned
    /\ parser.json = <<"1", "e", "+", "1">>
    /\ result = "NONE"
    /\ parser.token_count = 1
    /\ parser.cells[1].number = [neg |-> FALSE, mant |-> 1, exp |-> 1]

\* C13: a text that starts with '-', a digit or '.' fails with
\* InvalidNumber when the grammar has no number at its start or the
\* conversion consumes another span than the grammar's, and with
\* TrailingChars when both agree on a number and something other than
\* whitespace follows it.
C13_NumberErrorClasses ==
    /\ Returned /\ ~heap.failed
    /\ parser.json # <<>>
    /\ parser.json[1] \in {"-", "."} \cup Digits
    => LET n == RefNumberEnd(parser.json, 0)
           conv == strtod([json |-> parser.json, length |-> parser.length], 0).end
       IN  /\ n < 0 \/ conv # n => result = "INVALID_NUMBER"
           /\ n >= 0 /\ conv = n /\ RefWs(parser.json, n) < parser.length =>
                  /\ result = "TRAILING_CHARS"
                  /\ parser.token_count = 1

C13_Witness ==
    /\ Returned
    /\ parser.json = <<"0", "x", "1", "F">>
    /\ result = "INVALID_NUMBER"
    /\ parser.token_count = 0

---------------------------------------------------------------------------
(* Payloads and spans.                                                     *)

\* C14: the decoded content of every String token is free of the zero
\* byte, so that its length is the length up to the terminator (here
\* already under the default max_string with no allocation failing).
C14_NullFreePayload ==
    /\ Returned /\ ~heap.failed
    /\ parser.max_string = JSON_DEFAULT_MAX_STRING
    => \A i \in Tokens :
           parser.cells[i].type = "STRING" /\ parser.cells[i].string # 0 =>
               \A k \in 1..Len(parser.cells[i].bytes) :
                   parser.cells[i].bytes[k] # 0

\* The bytes of the input at [a, b).
Slice(j, a, b) == [k \in 1..(b - a) |-> j[a + k]]

IsLeaf(tok) == tok.type \in {"STRING", "NUMBER", "TRUE", "FALSE", "NULL"}

\* C15: after a successful Parse every leaf token has start <= end <=
\* length; a True, False or Null token spans the 4, 5 or 4 bytes that spell
\* the literal and a Number token spans exactly the number text.
C15_LeafSpans ==
    Returned /\ result = "NONE" /\ ~heap.failed =>
        \A i \in Tokens :
            LET tok == parser.cells[i]
            IN  IsLeaf(tok) =>
                    /\ tok.start <= tok.end
                    /\ tok.end <= parser.length
                    /\ tok.type = "TRUE" =>
                           Slice(parser.json, tok.start, tok.end) = LitTrue
                    /\ tok.type = "FALSE" =>
                           Slice(parser.json, tok.start, tok.end) = LitFalse
                    /\ tok.type = "NULL" =>
                           Slice(parser.json, tok.start, tok.end) = LitNull
                    /\ tok.type = "NUMBER" =>
                           RefNumberEnd(parser.json, tok.start) = tok.end

---------------------------------------------------------------------------
(* The order of the tokens.                                                *)

\* The start offsets grow strictly along the token sequence.
StartsIncrease ==
    \A i \in Tokens : \A k \in Tokens :
        i < k => parser.cells[i].start < parser.cells[k].start

\* Token i is the token of the i-th node of the document in pre-order: it
\* has the node's kind and its start lies in the node's span.
InPreOrder ==
    /\ Len(parser.cells) = Len(Ref.toks)
    /\ \A i \in Tokens :
           /\ parser.cells[i].type = Ref.toks[i].kind
           /\ Ref.toks[i].start <= parser.cells[i].start
           /\ parser.cells[i].start <= Ref.toks[i].end

\* A step keeps every stored token where it is.
TokensKept ==
    /\ Len(parser'.cells) >= Len(parser.cells)
    /\ \A i \in Tokens :
           /\ parser'.cells[i].type = parser.cells[i].type
           /\ parser'.cells[i].start = parser.cells[i].start

\* C16: within a Parse the tokens are appended in document pre-order: the
\* start offsets grow strictly along the sequence at every moment, no step
\* before Free removes or reorders a token, and for a well-formed document
\* the i-th token is the i-th node in pre-order.
C16_PreOrder ==
    /\ [](parses <= 1 /\ pc # "freed" => StartsIncrease)
    /\ [](Returned /\ WithinLimits /\ ~heap.failed => InPreOrder)
    /\ [][parses' <= 1 /\ pc' # "freed" => TokensKept]_vars

C16_Witness ==
    /\ Returned
    /\ result = "NONE"
    /\ parser.token_count = 7
    /\ heap.gen >= 2
    /\ parser.cells[3].type = "ARRAY"
    /\ parser.cells[5].type = "OBJECT"
    /\ parser.cells[7].type = "TRUE"

---------------------------------------------------------------------------
(* The cursor and the depth counter.                                       *)

\* C17: during Parse and when it returns, with None or with an error, the
\* cursor is at most the length of the input.
C17_CursorBound ==
    (InParse \/ Returned) /\ parses <= 1 => parser.pos <= parser.length

\* C18: the depth counter is never negative and is 0 whenever Parse
\* returns: every Object or Array handler leaves it, by success or by any
\* failure, at the value it had at the handler's entry.
C18_DepthPairs ==
    /\ parser.depth >= 0
    /\ Returned => parser.depth = 0

---------------------------------------------------------------------------
(* Growth of the token array.                                              *)

\* The step appends to a full store and the allocation it makes first, the
\* realloc of the growth, is the one that fails.
GrowthFails ==
    /\ parser.token_count >= parser.token_cap
    /\ AllocFails(heap)
    /\ heap'.allocs > heap.allocs

\* The tokens a caller retrieves are the stored ones, in a live block.
Retrievable(p, h) ==
    LET g == json_get_tokens(p)
    IN  /\ g.tokens # 0
        /\ h.blocks[g.tokens] = 0
        /\ g.count = Len(p.cells)

\* C19: the token count never exceeds the capacity; the capacity never
\* shrinks and changes only by doubling when the store is full; when the
\* growth allocation fails AllocationFailed is latched and the count, the
\* capacity and every stored token are as before and retrievable; no token
\* is appended afterwards in that Parse, which returns AllocationFailed.
C19_AppendGrowth ==
    /\ [](parser.token_count <= parser.token_cap)
    /\ [][pc' # "freed" =>
            \/ parser'.token_cap = parser.token_cap
            \/ /\ parser'.token_cap = 2 * parser.token_cap
               /\ parser.token_count = parser.token_cap]_vars
    /\ [][GrowthFails =>
            /\ parser'.error = "ALLOCATION_FAILED"
            /\ ret' = -1
            /\ parser'.token_count = parser.token_count
            /\ parser'.token_cap = parser.token_cap
            /\ parser'.cells = parser.cells
            /\ Retrievable(parser', heap')]_vars
    /\ [][InParse /\ heap.failed /\ parser.error = "ALLOCATION_FAILED" =>
            /\ parser'.cells = parser.cells
            /\ parser'.token_count = parser.token_count]_vars
    /\ [](Returned /\ heap.failed /\ heap.failAt >= 2 =>
            result = "ALLOCATION_FAILED")

C19_Witness ==
    /\ Returned
    /\ result = "ALLOCATION_FAILED"
    /\ heap.failAt = 3
    /\ parser.token_count = 2
    /\ parser.token_cap = 2
    /\ parser.cells[2].type = "STRING"
    /\ parser.cells[2].string # 0
    /\ Retrievable(parser, heap)

---------------------------------------------------------------------------
(* The scratch buffer.                                                     *)

\* C20: for every max_string, the small values included, and every input,
\* no content byte and no terminator is written at an index >= max_string
\* of the scratch buffer.
C20_NoScratchOverrun == ~heap.overrun

---------------------------------------------------------------------------
(* Termination.                                                            *)

\* Where control stands among the places that share one cursor position:
\* a handler that has failed unwinds one frame per step; otherwise control
\* goes from the return of a value to the loop head, to json_parse_value
\* and into a container handler, each of which returns or moves the cursor.
Rank ==
    CASE pc = "parse_end" -> 1
      [] pc \in {"obj_after", "arr_after"} /\ ret # 0 -> Len(stack) + 1
      [] pc \in {"obj_enter", "arr_enter"} -> Len(stack) + 2
      [] pc = "value" -> Len(stack) + 3
      [] pc \in {"obj_loop", "arr_loop"} -> Len(stack) + 4
      [] pc \in {"obj_after", "arr_after"} /\ ret = 0 -> Len(stack) + 5
      [] OTHER -> 0

\* The work Parse has left: the bytes the cursor has not passed, then the
\* rank; 0 outside Parse.
Measure ==
    IF InParse
    THEN (parser.length + 1 - parser.pos) * (parser.length + 6) + Rank
    ELSE 0

\* json_parser_parse has returned a success (json_parse_value reported 0
\* and the latch is None) or a latched error.
ReturnedOutcome ==
    /\ pc = "returned"
    /\ \/ ret = 0 /\ result = "NONE"
       \/ parser.error # "NONE" /\ result = parser.error

\* Every step inside Parse returns or brings control nearer to the return:
\* it moves the cursor forward, or keeps it and lowers the rank.
StepsDecrease ==
    [][InParse => Measure >= 0 /\ Measure' < Measure]_vars

\* C21: Parse terminates on every input and every setting of the limits:
\* every step of its loops and of its recursion returns or strictly
\* advances, and the return it reaches is a success or a latched error
\* (here already with no allocation failing).
C21_ParseTerminates ==
    [][InParse /\ ~heap'.failed =>
         /\ Measure >= 0
         /\ Measure' < Measure
         /\ pc' = "returned" => ReturnedOutcome']_vars

---------------------------------------------------------------------------
(* A second Parse.                                                         *)

\* The first Parse has returned a success.
FirstParseSucceeded ==
    pc = "returned" /\ parses = 1 /\ ret = 0 /\ result = "NONE"

\* C22: Parse resets neither the cursor nor the token store: a second Parse
\* on the same state after a successful one does not parse the input again;
\* it returns InvalidToken and leaves the token count and every token as
\* they were.
C22_SecondParse ==
    [][FirstParseSucceeded /\ parses' = 2 =>
         /\ pc' = "returned"
         /\ result' = "INVALID_TOKEN"
         /\ parser'.pos = parser.pos
         /\ parser'.token_count = parser.token_count
         /\ parser'.cells = parser.cells
         /\ json_get_tokens(parser') = json_get_tokens(parser)
         /\ heap' = heap]_vars

C22_Witness ==
    /\ pc = "returned"
    /\ parses = 2
    /\ ret = 0
    /\ result = "INVALID_TOKEN"
    /\ parser.pos = parser.length
    /\ parser.token_count = 7
    /\ parser.cells[7].type = "TRUE"

=============================================================================
